---- MODULE Spec2Model ----
(***************************************************************************)
(* A model of cimap.CaseInsensitiveMap (src/cimap.go): a hash table from   *)
(* hash64 to the head of a singly linked chain of nodes, with keys matched *)
(* by strings.EqualFold and hashed by a replaceable hash function.         *)
(*                                                                         *)
(* Strings are sequences of code points.  A hash64 is a sequence of eight  *)
(* bytes, least significant first, so that the arithmetic of               *)
(* defaultHashString is carried out modulo 2^64.  Nodes live in a heap     *)
(* (node id -> [Key, Value, Next]); 0 is the nil pointer.                  *)
(***************************************************************************)
EXTENDS Integers, Sequences, FiniteSets, TLC

VARIABLES size, hashString, internalMap, isNil, nodes, panicked, last, pre, ref

vars == <<size, hashString, internalMap, isNil, nodes, panicked, last, pre, ref>>

(***************************************************************************)
(* Bounds and inputs                                                       *)
(***************************************************************************)
\* Add is not taken when it would push size beyond MaxSize.
MaxSize == 3

\* Payloads; 0 is the zero value of T.
Values == {1, 2}

\* "a", "A", "b", "s" and the long s (U+017F), which EqualFold matches with
\* "s" and "S".
Keys == {<<97>>, <<65>>, <<98>>, <<115>>, <<383>>}

\* The keys made of ASCII letters only.
AsciiKeys == {k \in Keys : \A i \in 1..Len(k) : k[i] < 128}

(***************************************************************************)
(* unicode.ToLower, unicode.SimpleFold, strings.EqualFold, strings.ToLower *)
(***************************************************************************)
ToLower(r) ==
    IF r >= 65 /\ r <= 90 THEN r + 32 ELSE r

\* The fold orbits of the letters used: A-a, B-b, ..., and S -> s -> U+017F -> S.
SimpleFold(r) ==
    IF r = 83 THEN 115
    ELSE IF r = 115 THEN 383
    ELSE IF r = 383 THEN 83
    ELSE IF r >= 65 /\ r <= 90 THEN r + 32
    ELSE IF r >= 97 /\ r <= 122 THEN r - 32
    ELSE r

RECURSIVE FoldUpTo(_, _, _)
\* for r != sr && r < tr { r = unicode.SimpleFold(r) }
FoldUpTo(r, sr, tr) ==
    IF r # sr /\ r < tr THEN FoldUpTo(SimpleFold(r), sr, tr) ELSE r

RuneEqualFold(x, y) ==
    LET sr == IF y < x THEN y ELSE x
        tr == IF y < x THEN x ELSE y
    IN  IF tr = sr THEN TRUE
        ELSE IF tr < 128 THEN sr >= 65 /\ sr <= 90 /\ tr = sr + 32
        ELSE FoldUpTo(SimpleFold(sr), sr, tr) = tr

EqualFold(s, t) ==
    /\ Len(s) = Len(t)
    /\ \A i \in 1..Len(s) : RuneEqualFold(s[i], t[i])

StringsToLower(s) == [i \in 1..Len(s) |-> ToLower(s[i])]

\* len(s): the length of the UTF-8 encoding.
ByteLen(s) ==
    LET RECURSIVE Sum(_)
        Sum(i) == IF i = 0 THEN 0
                  ELSE Sum(i - 1) + (IF s[i] < 128 THEN 1 ELSE IF s[i] < 2048 THEN 2 ELSE 3)
    IN  Sum(Len(s))

(***************************************************************************)
(* uint64 arithmetic on eight bytes, least significant first               *)
(***************************************************************************)
RECURSIVE BitXor(_, _)
BitXor(a, b) ==
    IF a = 0 THEN b
    ELSE IF b = 0 THEN a
    ELSE (((a % 2) + (b % 2)) % 2) + 2 * BitXor(a \div 2, b \div 2)

\* uint64(n) for 0 <= n < 2^31
U64(n) ==
    [i \in 1..8 |-> CASE i = 1 -> n % 256
                      [] i = 2 -> (n \div 256) % 256
                      [] i = 3 -> (n \div 65536) % 256
                      [] i = 4 -> (n \div 16777216) % 256
                      [] OTHER -> 0]

\* x * y modulo 2^64
Mul64(x, y) ==
    LET RECURSIVE Col(_, _)
        \* the sum of the byte products of weight 256^(i-1)
        Col(i, j) == IF j = 0 THEN 0 ELSE Col(i, j - 1) + x[j] * y[i + 1 - j]
        RECURSIVE Carry(_, _)
        \* the carry into byte i
        Carry(i, dummy) == IF i = 1 THEN 0
                           ELSE (Col(i - 1, i - 1) + Carry(i - 1, dummy)) \div 256
    IN  [i \in 1..8 |-> (Col(i, i) + Carry(i, 0)) % 256]

\* h ^ uint64(r) for a code point r < 2^16
Xor64(h, r) ==
    [i \in 1..8 |-> CASE i = 1 -> BitXor(h[1], r % 256)
                      [] i = 2 -> BitXor(h[2], (r \div 256) % 256)
                      [] OTHER -> h[i]]

offset64 == <<37, 35, 34, 132, 228, 156, 242, 203>>
prime64 == <<179, 1, 0, 0, 0, 1, 0, 0>>

(***************************************************************************)
(* Hash functions                                                          *)
(***************************************************************************)
defaultHashString(key) ==
    LET RECURSIVE Loop(_)
        Loop(i) == IF i = 0 THEN offset64
                   ELSE Xor64(Mul64(Loop(i - 1), prime64), ToLower(key[i]))
    IN  Loop(Len(key))

\* func(s string) uint64 { return uint64(len(s)) }
lenHasher(key) == U64(ByteLen(key))

RECURSIVE SumRunes(_)
SumRunes(s) == IF s = <<>> THEN 0 ELSE Head(s) + SumRunes(Tail(s))

\* for _, r := range strings.ToLower(s) { h += uint64(r) }
sumLowerHasher(key) == U64(SumRunes(StringsToLower(key)))

\* The functions a caller passes to SetHasher.
CustomHashers == {"len", "sumLower"}

\* The hash of every key under every hasher, computed once.
HashTable ==
    [h \in CustomHashers \cup {"default"} |->
        [k \in Keys |-> CASE h = "default" -> defaultHashString(k)
                          [] h = "len" -> lenHasher(k)
                          [] OTHER -> sumLowerHasher(k)]]

\* c.hashString(k), for an installed (non-nil) hasher
Hash(h, k) == HashTable[h][k]

\* h gives case-insensitively equal keys of K the same hash.
CaseInvariant(h, K) ==
    \A k1 \in K, k2 \in K : EqualFold(k1, k2) => Hash(h, k1) = Hash(h, k2)

(***************************************************************************)
(* The table as a value: the fields of CaseInsensitiveMap and the heap of  *)
(* nodes they point into                                                   *)
(***************************************************************************)
Table ==
    [size |-> size, hashString |-> hashString, internalMap |-> internalMap,
     isNil |-> isNil, nodes |-> nodes]

EmptyMap == [h \in {} |-> 0]

\* var m CaseInsensitiveMap[T]: no hasher, a nil internal map
ZeroValue ==
    [size |-> 0, hashString |-> "nil", internalMap |-> EmptyMap, isNil |-> TRUE,
     nodes |-> EmptyMap]

\* A New that forgets the hash function when it is given a capacity.
NewHintedWithoutHasher(sizeArg) ==
    IF Len(sizeArg) > 0 /\ sizeArg[1] > 0
    THEN [size |-> 0, hashString |-> "nil", internalMap |-> EmptyMap,
          isNil |-> FALSE, nodes |-> EmptyMap]
    ELSE [size |-> 0, hashString |-> "default", internalMap |-> EmptyMap,
          isNil |-> FALSE, nodes |-> EmptyMap]

\* New(size...): the capacity hint only pre-sizes the internal map.
New(sizeArg) ==
    IF Len(sizeArg) > 0 /\ sizeArg[1] > 0
    THEN [size |-> 0, hashString |-> "default", internalMap |-> EmptyMap,
          isNil |-> FALSE, nodes |-> EmptyMap]
    ELSE [size |-> 0, hashString |-> "default", internalMap |-> EmptyMap,
          isNil |-> FALSE, nodes |-> EmptyMap]

\* c.internalMap[h]: the head of bucket h, nil (0) when there is none
Bucket(t, h) == IF h \in DOMAIN t.internalMap THEN t.internalMap[h] ELSE 0

MapPut(m, h, n) == [x \in DOMAIN m \cup {h} |-> IF x = h THEN n ELSE m[x]]

MapDelete(m, h) == [x \in DOMAIN m \ {h} |-> m[x]]

RECURSIVE ChainFrom(_, _, _)
\* The nodes met by following Next from n, in order; the walk gives up after
\* fuel steps, so that it is defined on a cyclic heap too.
ChainFrom(ns, n, fuel) ==
    IF n = 0 \/ fuel = 0 THEN <<>>
    ELSE <<n>> \o ChainFrom(ns, ns[n].Next, fuel - 1)

Chain(t, h) == ChainFrom(t.nodes, Bucket(t, h), Cardinality(DOMAIN t.nodes) + 1)

SeqRange(s) == {s[i] : i \in 1..Len(s)}

\* The nodes reachable from the bucket heads.
Reachable(t) == UNION {SeqRange(Chain(t, h)) : h \in DOMAIN t.internalMap}

\* Nodes no bucket reaches are garbage: the heap keeps the reachable ones.
Collect(t) == [t EXCEPT !.nodes = [n \in Reachable(t) |-> t.nodes[n]]]

RECURSIVE Less(_, _)
\* the lexicographic order of two sequences of numbers
Less(s, u) ==
    IF u = <<>> THEN FALSE
    ELSE IF s = <<>> THEN TRUE
    ELSE IF Head(s) # Head(u) THEN Head(s) < Head(u)
    ELSE Less(Tail(s), Tail(u))

RECURSIVE Layout(_, _)
\* The reachable nodes, chain after chain, the buckets hs in the order of
\* their hashes.
Layout(t, hs) ==
    IF hs = {} THEN <<>>
    ELSE LET h == CHOOSE x \in hs : \A y \in hs \ {x} : Less(x, y)
         IN  Chain(t, h) \o Layout(t, hs \ {h})

RECURSIVE Distinct(_)
\* s without the later occurrences of its elements
Distinct(s) ==
    IF s = <<>> THEN <<>>
    ELSE LET d == Distinct(SubSeq(s, 1, Len(s) - 1))
         IN  IF s[Len(s)] \in SeqRange(d) THEN d ELSE Append(d, s[Len(s)])

\* Addresses are not observable: the heap is kept compact, the garbage
\* dropped and the reachable nodes numbered in the order of Layout.  A node
\* that two walks reach is one node after the renumbering too.
Compact(t) ==
    LET lay == Distinct(Layout(t, DOMAIN t.internalMap))
        addr(n) == IF n = 0 THEN 0 ELSE CHOOSE i \in 1..Len(lay) : lay[i] = n
    IN  [t EXCEPT
           !.nodes = [i \in 1..Len(lay) |->
                        [t.nodes[lay[i]] EXCEPT !.Next = addr(@)]],
           !.internalMap = [h \in DOMAIN t.internalMap |-> addr(t.internalMap[h])]]

\* &node[T]{...}: the address of a new node
NewNode(ns) ==
    LET free == (1..(Cardinality(DOMAIN ns) + 1)) \ DOMAIN ns
    IN  CHOOSE n \in free : \A m \in free : n <= m

(***************************************************************************)
(* Node methods                                                            *)
(***************************************************************************)
\* An insertOrReplace that takes the first entry of the chain for the
\* entry of the key without comparing keys.
insertOrReplaceFromFirstEntry(ns, prev, cur, key, val) ==
    IF cur = 0
    THEN LET new == NewNode(ns)
         IN  [nodes |-> [n \in DOMAIN ns \cup {new} |->
                           IF n = new THEN [Key |-> key, Value |-> val, Next |-> 0]
                           ELSE IF n = prev THEN [ns[n] EXCEPT !.Next = new]
                           ELSE ns[n]],
              existed |-> FALSE]
    ELSE [nodes |-> [ns EXCEPT ![cur].Key = key, ![cur].Value = val],
          existed |-> TRUE]

RECURSIVE insertOrReplaceFrom(_, _, _, _, _)
insertOrReplaceFrom(ns, prev, cur, key, val) ==
    IF cur = 0
    THEN LET new == NewNode(ns)
         IN  [nodes |-> [n \in DOMAIN ns \cup {new} |->
                           IF n = new THEN [Key |-> key, Value |-> val, Next |-> 0]
                           ELSE IF n = prev THEN [ns[n] EXCEPT !.Next = new]
                           ELSE ns[n]],
              existed |-> FALSE]
    ELSE IF ~EqualFold(ns[cur].Key, key)
    THEN insertOrReplaceFrom(ns, cur, ns[cur].Next, key, val)
    ELSE [nodes |-> [ns EXCEPT ![cur].Key = key, ![cur].Value = val],
          existed |-> TRUE]

insertOrReplace(ns, n, key, val) == insertOrReplaceFrom(ns, 0, n, key, val)

\* A delete that reports a removal when the chain holds no match.
deleteFromReportsRemoval(ns, prev, key) == [nodes |-> ns, found |-> TRUE]

RECURSIVE deleteFrom(_, _, _)
\* for prev := n; prev.Next != nil; prev = prev.Next
deleteFrom(ns, prev, key) ==
    IF ns[prev].Next = 0 THEN [nodes |-> ns, found |-> FALSE]
    ELSE IF EqualFold(ns[ns[prev].Next].Key, key)
    THEN [nodes |-> [ns EXCEPT ![prev].Next = ns[ns[prev].Next].Next],
          found |-> TRUE]
    ELSE deleteFrom(ns, ns[prev].Next, key)

\* n.delete(key): when the head matches, only the method's own copy of the
\* pointer is moved on, and the chain is left as it was.
delete(ns, n, key) ==
    IF EqualFold(ns[n].Key, key) THEN [nodes |-> ns, found |-> TRUE]
    ELSE deleteFrom(ns, n, key)

(***************************************************************************)
(* Map methods.  Each gives the table after the call, what the call        *)
(* returned, and whether it panicked (a nil hasher called, a nil map       *)
(* written).                                                               *)
(***************************************************************************)
Ret(t, val, ok, panic) == [t |-> t, val |-> val, ok |-> ok, panic |-> panic]

\* A lookup that compares the head of the chain and does not walk on.
GetFromHeadOnly(ns, n, k) ==
    IF n # 0 /\ EqualFold(ns[n].Key, k) THEN [val |-> ns[n].Value, ok |-> TRUE]
    ELSE [val |-> 0, ok |-> FALSE]

RECURSIVE GetFrom(_, _, _)
\* for n := c.internalMap[c.hashString(k)]; n != nil; n = n.Next
GetFrom(ns, n, k) ==
    IF n = 0 THEN [val |-> 0, ok |-> FALSE]
    ELSE IF ~EqualFold(ns[n].Key, k) THEN GetFrom(ns, ns[n].Next, k)
    ELSE [val |-> ns[n].Value, ok |-> TRUE]

Get(t, k) ==
    IF t.hashString = "nil" THEN Ret(t, 0, FALSE, TRUE)
    ELSE LET r == GetFrom(t.nodes, Bucket(t, Hash(t.hashString, k)), k)
         IN  Ret(t, r.val, r.ok, FALSE)

Add(t, k, val) ==
    IF t.hashString = "nil" THEN Ret(t, 0, FALSE, TRUE)
    ELSE LET h == Hash(t.hashString, k)
         IN  IF h \in DOMAIN t.internalMap
             THEN LET r == insertOrReplace(t.nodes, t.internalMap[h], k, val)
                  IN  Ret([t EXCEPT !.nodes = r.nodes,
                                    !.size = IF r.existed THEN @ ELSE @ + 1],
                          0, FALSE, FALSE)
             ELSE IF t.isNil THEN Ret(t, 0, FALSE, TRUE)
             ELSE LET new == NewNode(t.nodes)
                  IN  Ret([t EXCEPT
                             !.nodes = [n \in DOMAIN t.nodes \cup {new} |->
                                          IF n = new
                                          THEN [Key |-> k, Value |-> val, Next |-> 0]
                                          ELSE t.nodes[n]],
                             !.internalMap = MapPut(@, h, new),
                             !.size = @ + 1],
                          0, FALSE, FALSE)

Delete(t, k) ==
    IF t.hashString = "nil" THEN Ret(t, 0, FALSE, TRUE)
    ELSE LET h == Hash(t.hashString, k)
         IN  IF h \in DOMAIN t.internalMap
             THEN LET r == delete(t.nodes, t.internalMap[h], k)
                  IN  IF r.found
                      THEN Ret(Collect([t EXCEPT !.nodes = r.nodes,
                                                 !.internalMap = MapDelete(@, h),
                                                 !.size = @ - 1]),
                               0, FALSE, FALSE)
                      ELSE Ret(t, 0, FALSE, FALSE)
             ELSE Ret(t, 0, FALSE, FALSE)

\* A GetAndDel that takes the head of the key's bucket without comparing
\* keys.
GetAndDelHeadOfBucket(t, k) ==
    IF t.hashString = "nil" THEN Ret(t, 0, FALSE, TRUE)
    ELSE LET h == Hash(t.hashString, k)
         IN  IF h \in DOMAIN t.internalMap
             THEN Ret(Collect([t EXCEPT !.internalMap = MapDelete(@, h),
                                        !.size = @ - 1]),
                      t.nodes[t.internalMap[h]].Value, TRUE, FALSE)
             ELSE Ret(t, 0, FALSE, FALSE)

GetAndDel(t, k) ==
    LET g == Get(t, k)
    IN  IF g.panic THEN g
        ELSE IF g.ok
        THEN LET d == Delete(t, k) IN Ret(d.t, g.val, TRUE, d.panic)
        ELSE Ret(t, 0, FALSE, FALSE)

\* GetOrSet returns a value only; ok records whether the key was found.
GetOrSet(t, k, val) ==
    LET g == Get(t, k)
    IN  IF g.panic THEN g
        ELSE IF g.ok THEN Ret(t, g.val, TRUE, FALSE)
        ELSE LET a == Add(t, k, val) IN Ret(a.t, val, FALSE, a.panic)

\* Len()
MapLen(t) == t.size

Clear(t) ==
    [t EXCEPT !.internalMap = EmptyMap, !.isNil = FALSE, !.size = 0,
              !.nodes = EmptyMap]

\* A SetHasher that stores every entry, not only the bucket heads, under
\* the new hash of its key, and leaves the Next pointers as they are.
SetHasherRehashesEveryEntry(t, fn) ==
    IF t.size > 0
    THEN LET all == Reachable(t)
             hashes == {Hash(fn, t.nodes[v].Key) : v \in all}
         IN  {Collect([t EXCEPT !.hashString = fn, !.internalMap = newMap,
                                !.isNil = FALSE]) :
                newMap \in {f \in [hashes -> all] :
                              \A h \in hashes : Hash(fn, t.nodes[f[h]].Key) = h}}
    ELSE {[t EXCEPT !.hashString = fn]}

\* The tables SetHasher(fn) can leave: the bucket heads of the old map are
\* stored under the new hash of their own key, in the map's iteration order,
\* so of the heads that get the same new hash any one may be the last written.
SetHasher(t, fn) ==
    IF t.size > 0
    THEN LET heads == {t.internalMap[h] : h \in DOMAIN t.internalMap}
             hashes == {Hash(fn, t.nodes[v].Key) : v \in heads}
         IN  {Collect([t EXCEPT !.hashString = fn, !.internalMap = newMap,
                                !.isNil = FALSE]) :
                newMap \in {f \in [hashes -> heads] :
                              \A h \in hashes : Hash(fn, t.nodes[f[h]].Key) = h}}
    ELSE {[t EXCEPT !.hashString = fn]}

(***************************************************************************)
(* Traversal.  The range loop visits the buckets in an order o of its      *)
(* choosing; the consumer returns false at the stop-th element it is given *)
(* (never, when stop is 0).                                                *)
(***************************************************************************)
\* A walk of the chain in which the consumer's stop ends the loop over the
\* chain only, and the loop over the buckets goes on.
VisitChainStopEndsChainOnly(t, v, given, stop) ==
    LET c == ChainFrom(t.nodes, v, Cardinality(DOMAIN t.nodes) + 1)
        n == IF stop > given /\ stop - given <= Len(c) THEN stop - given ELSE Len(c)
    IN  [seen |-> SubSeq(c, 1, n), stopped |-> FALSE]

RECURSIVE VisitChain(_, _, _, _)
\* for ; v != nil; v = v.Next { if !yield(...) { return } }
\* The nodes given to the consumer from node v on, after given elements,
\* and whether the consumer stopped the traversal.
VisitChain(t, v, given, stop) ==
    IF v = 0 THEN [seen |-> <<>>, stopped |-> FALSE]
    ELSE IF given + 1 = stop THEN [seen |-> <<v>>, stopped |-> TRUE]
    ELSE LET r == VisitChain(t, t.nodes[v].Next, given + 1, stop)
         IN  [seen |-> <<v>> \o r.seen, stopped |-> r.stopped]

RECURSIVE Visit(_, _, _, _)
\* for _, v := range c.internalMap { ... }, the buckets taken in the order o
Visit(t, o, given, stop) ==
    IF o = <<>> THEN <<>>
    ELSE LET r == VisitChain(t, Bucket(t, Head(o)), given, stop)
         IN  IF r.stopped THEN r.seen
             ELSE r.seen \o Visit(t, Tail(o), given + Len(r.seen), stop)

\* Keys(): the keys given to yield
KeysSeq(t, o, stop) ==
    LET w == Visit(t, o, 0, stop)
    IN  [i \in 1..Len(w) |-> t.nodes[w[i]].Key]

\* Iterator(): the (key, value) pairs given to yield
Iterator(t, o, stop) ==
    LET w == Visit(t, o, 0, stop)
    IN  [i \in 1..Len(w) |-> <<t.nodes[w[i]].Key, t.nodes[w[i]].Value>>]

\* ForEach(fn): the (key, value) pairs given to fn
ForEach(t, o, stop) ==
    LET w == Visit(t, o, 0, stop)
    IN  [i \in 1..Len(w) |-> <<t.nodes[w[i]].Key, t.nodes[w[i]].Value>>]

\* When the consumers stop: never, at the first element, at the second.
Stops == {0, 1, 2}

(***************************************************************************)
(* JSON.  A payload is malformed or an object, given by its members in the *)
(* order of the text; an encoded map lists its members sorted by key.      *)
(***************************************************************************)
\* the order of the keys of an encoded object: that of their UTF-8 bytes,
\* which is that of their code points
KeyLess(s, t) == Less(s, t)

Member(k, v) == [key |-> k, val |-> v]

Object(members) == [valid |-> TRUE, members |-> members]

Malformed == [valid |-> FALSE, members |-> <<>>]

RECURSIVE jsonUnmarshal(_)
\* json.Unmarshal(data, &m) into a map[string]T: of the members with the
\* same key the last one stays
jsonUnmarshal(members) ==
    IF members = <<>> THEN EmptyMap
    ELSE LET n == Len(members)
         IN  MapPut(jsonUnmarshal(SubSeq(members, 1, n - 1)),
                    members[n].key, members[n].val)

RECURSIVE jsonMarshal(_)
\* json.Marshal(m) of a map[string]T: the members sorted by key
jsonMarshal(m) ==
    IF DOMAIN m = {} THEN <<>>
    ELSE LET k == CHOOSE x \in DOMAIN m : \A y \in DOMAIN m \ {x} : KeyLess(x, y)
         IN  <<Member(k, m[k])>> \o jsonMarshal(MapDelete(m, k))

\* The orders in which a range loop can visit the set S.
Orders(S) ==
    {o \in [1..Cardinality(S) -> S] : \A i, j \in 1..Cardinality(S) : o[i] = o[j] => i = j}

RECURSIVE AddAll(_, _, _)
\* for k, v := range m { c.Add(k, v) }, visiting the keys in the order o
AddAll(t, m, o) ==
    IF o = <<>> THEN t
    ELSE AddAll(Add(t, Head(o), m[Head(o)]).t, m, Tail(o))

\* An UnmarshalJSON that installs the default hasher whether or not the
\* table has one.
UnmarshalJSONResetsHasher(t, data) ==
    IF ~data.valid THEN {[t |-> t, err |-> TRUE, order |-> <<>>]}
    ELSE LET m == jsonUnmarshal(data.members)
             c == [t EXCEPT !.internalMap = EmptyMap, !.isNil = FALSE, !.size = 0,
                            !.nodes = EmptyMap, !.hashString = "default"]
         IN  {[t |-> AddAll(c, m, o), err |-> FALSE, order |-> o] :
                o \in Orders(DOMAIN m)}

\* The outcomes of UnmarshalJSON(data): the error, or the tables the Adds can
\* leave, each with the order in which the range loop visited the keys.
UnmarshalJSON(t, data) ==
    IF ~data.valid THEN {[t |-> t, err |-> TRUE, order |-> <<>>]}
    ELSE LET m == jsonUnmarshal(data.members)
             c == [t EXCEPT !.internalMap = EmptyMap, !.isNil = FALSE, !.size = 0,
                            !.nodes = EmptyMap,
                            !.hashString = IF @ = "nil" THEN "default" ELSE @]
         IN  {[t |-> AddAll(c, m, o), err |-> FALSE, order |-> o] :
                o \in Orders(DOMAIN m)}

\* The payloads MarshalJSON() can produce: every reachable node is written
\* into a map[string]T under its stored key, bucket by bucket in the map's
\* iteration order, and the map is encoded.
MarshalJSON(t) ==
    LET live == Reachable(t)
        keys == {t.nodes[n].Key : n \in live}
    IN  {Object(jsonMarshal(m)) :
            m \in {f \in [keys -> Values] :
                     \A k \in keys : \E n \in live :
                        t.nodes[n].Key = k /\ t.nodes[n].Value = f[k]}}

\* The payloads given to UnmarshalJSON: not JSON, the empty object, one
\* member, members that differ by case only, that collide under len(s), that
\* fold together without sharing a default hash, and a repeated member.
Payloads ==
    {Malformed,
     Object(<<>>),
     Object(<<Member(<<97>>, 1)>>),
     Object(<<Member(<<97>>, 1), Member(<<65>>, 2)>>),
     Object(<<Member(<<97>>, 1), Member(<<98>>, 2)>>),
     Object(<<Member(<<115>>, 1), Member(<<383>>, 2)>>),
     Object(<<Member(<<65>>, 2), Member(<<65>>, 1)>>)}

(***************************************************************************)
(* The state machine.  last is the call just made with what it returned,   *)
(* pre the table before that call, ref the reference map of the callers    *)
(* that keep one.                                                          *)
(***************************************************************************)
NoKey == <<>>

\* data and order are the payload of an import and the order in which its
\* members were added; seen is what a traversal gave its consumer, and stop
\* the number of the element at which the consumer returned false (0: it
\* never did); hint is the size argument of New.
Call(op, k, v, fn, val, ok) ==
    [op |-> op, k |-> k, v |-> v, fn |-> fn, val |-> val, ok |-> ok,
     data |-> Object(<<>>), order |-> <<>>, seen |-> <<>>, stop |-> 0,
     hint |-> <<>>]

Install(t) ==
    /\ size' = t.size
    /\ hashString' = t.hashString
    /\ internalMap' = t.internalMap
    /\ isNil' = t.isNil
    /\ nodes' = t.nodes

\* What a call does to the state: it panics, leaving the table as it was, or
\* leaves the table t and is recorded with what it returned.
Step(r, op, k, v, fn) ==
    /\ ~panicked
    /\ pre' = Table
    /\ IF r.panic
       THEN /\ Install(Table)
            /\ panicked' = TRUE
            /\ last' = Call(op, k, v, fn, 0, FALSE)
       ELSE /\ Install(Compact(r.t))
            /\ panicked' = FALSE
            /\ last' = Call(op, k, v, fn, r.val, r.ok)

\* An import of data that leaves the outcome r of UnmarshalJSON, recorded
\* as op; ok records that no error was returned.
StepImport(r, op, data) ==
    /\ ~panicked
    /\ pre' = Table
    /\ Install(Compact(r.t))
    /\ panicked' = FALSE
    /\ last' = [Call(op, NoKey, 0, "", 0, ~r.err) EXCEPT !.data = data,
                                                         !.order = r.order]

\* The size arguments New is called with: none, 0, a positive capacity.
SizeArgs == {<<>>, <<0>>, <<10>>}

\* The table is declared (var m CaseInsensitiveMap[T]) or made by New.
Init ==
    /\ \E c \in {[t |-> ZeroValue, op |-> "var", hint |-> <<>>]}
                 \cup {[t |-> New(a), op |-> "New", hint |-> a] : a \in SizeArgs} :
          /\ size = c.t.size
          /\ hashString = c.t.hashString
          /\ internalMap = c.t.internalMap
          /\ isNil = c.t.isNil
          /\ nodes = c.t.nodes
          /\ pre = c.t
          /\ last = [Call(c.op, NoKey, 0, "", 0, FALSE) EXCEPT !.hint = c.hint]
    /\ panicked = FALSE
    /\ ref = EmptyMap

DoAdd(K) ==
    \E k \in K, v \in Values :
        LET r == Add(Table, k, v)
        IN  /\ r.t.size <= MaxSize
            /\ Step(r, "Add", k, v, "")
            /\ UNCHANGED ref

DoGet(K) ==
    \E k \in K :
        /\ Step(Get(Table, k), "Get", k, 0, "")
        /\ UNCHANGED ref

DoDelete(K) ==
    \E k \in K :
        /\ Step(Delete(Table, k), "Delete", k, 0, "")
        /\ UNCHANGED ref

DoGetAndDel(K) ==
    \E k \in K :
        /\ Step(GetAndDel(Table, k), "GetAndDel", k, 0, "")
        /\ UNCHANGED ref

DoGetOrSet(K) ==
    \E k \in K, v \in Values :
        LET r == GetOrSet(Table, k, v)
        IN  /\ r.t.size <= MaxSize
            /\ Step(r, "GetOrSet", k, v, "")
            /\ UNCHANGED ref

DoClear ==
    /\ Step(Ret(Clear(Table), 0, FALSE, FALSE), "Clear", NoKey, 0, "")
    /\ UNCHANGED ref

DoSetHasher(H) ==
    \E fn \in H : \E t \in SetHasher(Table, fn) :
        /\ Step(Ret(t, 0, FALSE, FALSE), "SetHasher", NoKey, 0, fn)
        /\ UNCHANGED ref

DoUnmarshalJSON ==
    \E data \in Payloads : \E r \in UnmarshalJSON(Table, data) :
        /\ StepImport(r, "UnmarshalJSON", data)
        /\ UNCHANGED ref

Next ==
    \/ DoAdd(Keys)
    \/ DoGet(Keys)
    \/ DoDelete(Keys)
    \/ DoGetAndDel(Keys)
    \/ DoGetOrSet(Keys)
    \/ DoClear
    \/ DoSetHasher(CustomHashers)
    \/ DoUnmarshalJSON

Spec == Init /\ [][Next]_vars

(***************************************************************************)
(* The callers that install case-invariant hash functions only: on the     *)
(* ASCII keys the default hasher and the hashers of CustomHashers all give *)
(* keys that differ by case the same hash.                                 *)
(***************************************************************************)
AsciiPayloads ==
    {d \in Payloads : \A i \in 1..Len(d.members) : d.members[i].key \in AsciiKeys}

DoUnmarshalAscii ==
    \E data \in AsciiPayloads : \E r \in UnmarshalJSON(Table, data) :
        /\ StepImport(r, "UnmarshalJSON", data)
        /\ UNCHANGED ref

NextCI ==
    \/ DoAdd(AsciiKeys)
    \/ DoGet(AsciiKeys)
    \/ DoDelete(AsciiKeys)
    \/ DoGetAndDel(AsciiKeys)
    \/ DoGetOrSet(AsciiKeys)
    \/ DoClear
    \/ DoSetHasher(CustomHashers)
    \/ DoUnmarshalAscii

SpecCI == Init /\ [][NextCI]_vars

(***************************************************************************)
(* The caller that runs every Add, Get and Delete on the table and on the  *)
(* reference map InsenstiveStubMap, after choosing the table's hasher      *)
(***************************************************************************)
\* m.keys[strings.ToLower(key)]
stubGet(m, key) ==
    LET lowerKey == StringsToLower(key)
    IN  IF lowerKey \in DOMAIN m THEN [val |-> m[lowerKey], ok |-> TRUE]
        ELSE [val |-> 0, ok |-> FALSE]

stubAdd(m, key, value) == MapPut(m, StringsToLower(key), value)

stubDelete(m, key) == MapDelete(m, StringsToLower(key))

\* SetHasher on the table as constructed, before any other call
DoSetHasherFirst ==
    /\ last.op \in {"New", "var"}
    /\ \E fn \in CustomHashers : \E t \in SetHasher(Table, fn) :
          Step(Ret(t, 0, FALSE, FALSE), "SetHasher", NoKey, 0, fn)
    /\ UNCHANGED ref

StubAdd ==
    \E k \in AsciiKeys, v \in Values :
        LET r == Add(Table, k, v)
        IN  /\ r.t.size <= MaxSize
            /\ Step(r, "Add", k, v, "")
            /\ ref' = stubAdd(ref, k, v)

StubGet ==
    \E k \in AsciiKeys :
        /\ Step(Get(Table, k), "Get", k, 0, "")
        /\ UNCHANGED ref

StubDelete ==
    \E k \in AsciiKeys :
        /\ Step(Delete(Table, k), "Delete", k, 0, "")
        /\ ref' = stubDelete(ref, k)

NextStub == DoSetHasherFirst \/ StubAdd \/ StubGet \/ StubDelete

SpecStub == Init /\ [][NextStub]_vars

(***************************************************************************)
(* The caller that chooses a hasher and then only adds and looks up        *)
(***************************************************************************)
NextAdds == DoSetHasherFirst \/ DoAdd(Keys) \/ DoGet(Keys)

SpecAdds == Init /\ [][NextAdds]_vars

(***************************************************************************)
(* The caller that traverses the table between its other calls             *)
(***************************************************************************)
\* A traversal leaves the table as it is; what the consumer was given is
\* recorded.
StepTraverse(op, seen, stop) ==
    /\ ~panicked
    /\ pre' = Table
    /\ Install(Table)
    /\ panicked' = FALSE
    /\ last' = [Call(op, NoKey, 0, "", 0, FALSE) EXCEPT !.seen = seen, !.stop = stop]

DoKeys ==
    /\ \E o \in Orders(DOMAIN internalMap), stop \in Stops :
          StepTraverse("Keys", KeysSeq(Table, o, stop), stop)
    /\ UNCHANGED ref

DoIterator ==
    /\ \E o \in Orders(DOMAIN internalMap), stop \in Stops :
          StepTraverse("Iterator", Iterator(Table, o, stop), stop)
    /\ UNCHANGED ref

DoForEach ==
    /\ \E o \in Orders(DOMAIN internalMap), stop \in Stops :
          StepTraverse("ForEach", ForEach(Table, o, stop), stop)
    /\ UNCHANGED ref

NextIter ==
    \/ DoAdd(AsciiKeys)
    \/ DoDelete(AsciiKeys)
    \/ DoClear
    \/ DoSetHasher(CustomHashers)
    \/ DoUnmarshalAscii
    \/ DoKeys
    \/ DoIterator
    \/ DoForEach

SpecIter == Init /\ [][NextIter]_vars

(***************************************************************************)
(* The caller that encodes the table and decodes the result into a new     *)
(* table (encoded, _ := json.Marshal(m); var m2 CaseInsensitiveMap[T];     *)
(* json.Unmarshal(encoded, &m2)), and goes on with the new table           *)
(***************************************************************************)
DoRoundTrip ==
    /\ \E data \in MarshalJSON(Table) : \E r \in UnmarshalJSON(ZeroValue, data) :
          StepImport(r, "RoundTrip", data)
    /\ UNCHANGED ref

NextRoundTrip ==
    \/ DoAdd(Keys)
    \/ DoDelete(Keys)
    \/ DoSetHasher(CustomHashers)
    \/ DoRoundTrip

SpecRoundTrip == Init /\ [][NextRoundTrip]_vars

(***************************************************************************)
(* The caller that adds a key and deletes it again at once (m.Add(k, v);   *)
(* m.Delete(k)), after choosing a hasher and adding other keys             *)
(***************************************************************************)
DoAddThenDelete ==
    \E k \in Keys, v \in Values :
        LET a == Add(Table, k, v)
            d == Delete(a.t, k)
        IN  /\ a.t.size <= MaxSize
            /\ Step(IF a.panic THEN a ELSE d, "AddThenDelete", k, v, "")
            /\ UNCHANGED ref

NextAddDelete == DoSetHasherFirst \/ DoAdd(Keys) \/ DoAddThenDelete

SpecAddDelete == Init /\ [][NextAddDelete]_vars

(***************************************************************************)
(* What the claims speak of                                                *)
(***************************************************************************)
\* The entries of t: the nodes reachable by walking all chains.
Entries(t) == Reachable(t)

\* The logical key of k is present in t: some entry's key equals k under
\* case folding.
Present(t, k) == \E n \in Entries(t) : EqualFold(t.nodes[n].Key, k)

\* The (key, value) pairs of the chain of bucket h, in chain order.
ChainPairs(t, h) ==
    LET c == Chain(t, h)
    IN  [i \in 1..Len(c) |-> <<t.nodes[c[i]].Key, t.nodes[c[i]].Value>>]

\* What Get(k) returns on t.
Lookup(t, k) == LET g == Get(t, k) IN <<g.val, g.ok>>

\* The call just made was op and returned.
Did(op) == last.op = op /\ ~panicked

(***************************************************************************)
(* Claims                                                                  *)
(***************************************************************************)
\* C1: in every reachable state Len() equals the number of entries reachable
\* by walking all chains of all buckets.
C1_LenIsEntryCount == MapLen(Table) = Cardinality(Entries(Table))

\* C2: when only case-invariant hash functions are ever installed, no two
\* distinct reachable entries have case-insensitively equal keys.
C2_NoDuplicateLogicalKey ==
    \A n1 \in Entries(Table), n2 \in Entries(Table) :
        EqualFold(nodes[n1].Key, nodes[n2].Key) => n1 = n2

\* C3: after every completed operation every reachable entry, head or not,
\* is in the chain of the bucket whose key is the hash of the entry's key
\* under the installed hash function.
C3_EntryInBucketOfItsHash ==
    \A h \in DOMAIN internalMap :
        \A n \in SeqRange(Chain(Table, h)) : Hash(hashString, nodes[n].Key) = h

\* C4: every Get of a run of Add, Get and Delete calls under a case-invariant
\* hash function returns what the reference map, given the same calls,
\* returns.
C4_GetAgreesWithReference ==
    Did("Get") => [val |-> last.val, ok |-> last.ok] = stubGet(ref, last.k)

\* C5: for case-insensitively equal keys k1 and k2, Add(k1, v) immediately
\* followed by Get(k2) returns (v, true), whatever the table held before.
C5_AddThenGetAnyCase ==
    Did("Add") =>
        \A k2 \in Keys : EqualFold(k2, last.k) => Lookup(Table, k2) = <<last.v, TRUE>>

\* The buckets of t with the (key, value) pairs of their chains.
Contents(t) == [h \in DOMAIN t.internalMap |-> ChainPairs(t, h)]

\* C6: Add of a key whose logical key is already present overwrites that
\* entry in place: no entry is added, the entry's stored key is the key just
\* added and its value the value just added, that casing is what traversal
\* and export surface, and the former casing is gone.
C6_AddOverwritesInPlace ==
    (Did("Add") /\ Present(pre, last.k)) =>
        /\ size = pre.size
        /\ internalMap = pre.internalMap
        /\ \E n \in Entries(pre) :
              /\ EqualFold(pre.nodes[n].Key, last.k)
              /\ nodes = [pre.nodes EXCEPT ![n].Key = last.k, ![n].Value = last.v]
        /\ \A d \in MarshalJSON(Table) :
              \E i \in 1..Len(d.members) :
                  d.members[i] = Member(last.k, last.v)

\* The installed hasher gives every key that equals k under case folding the
\* hash it gives k.
SameHashForAllCases(t, k) ==
    \A k2 \in Keys : EqualFold(k2, k) => Hash(t.hashString, k2) = Hash(t.hashString, k)

\* The bucket of k holds an entry for k among two or more entries.
InSharedBucket(t, k) ==
    LET c == ChainPairs(t, Hash(t.hashString, k))
    IN  Len(c) >= 2 /\ \E i \in 1..Len(c) : EqualFold(c[i][1], k)

\* C7 as claimed: with any installed hash function, in a run of Adds each key
\* that shares its bucket with other logical keys is found by Get with the
\* value most recently added under a key equal to it up to case: an Add
\* gives its value to the keys equal to its key up to case and leaves what
\* Get returns for the other keys as it was.
C7_Original ==
    Did("Add") =>
        \A k2 \in Keys : InSharedBucket(Table, k2) =>
            Lookup(Table, k2) = IF EqualFold(k2, last.k) THEN <<last.v, TRUE>>
                                ELSE Lookup(pre, k2)

\* C7, amended: the same, for the keys whose case variants the installed
\* hash function all gives one hash.
C7_CollidingKeysKeepTheirValues ==
    Did("Add") =>
        \A k2 \in Keys : (InSharedBucket(Table, k2) /\ SameHashForAllCases(Table, k2)) =>
            Lookup(Table, k2) = IF EqualFold(k2, last.k) THEN <<last.v, TRUE>>
                                ELSE Lookup(pre, k2)

\* "A" was added over "a", the second entry of a chain whose head is another
\* logical key, and Get("a") skips the head and returns the new value.
C7_Witness ==
    /\ Did("Add")
    /\ last.k = <<65>>
    /\ Lookup(pre, <<97>>) = <<3 - last.v, TRUE>>
    /\ LET c == ChainPairs(Table, Hash(hashString, <<97>>))
       IN  Len(c) >= 2 /\ ~EqualFold(c[1][1], <<97>>)
    /\ Lookup(Table, <<97>>) = <<last.v, TRUE>>

\* C8: when a logical key is present, Delete with any case variant of it
\* makes Get of every case variant return not-found and decreases Len() by
\* exactly 1.
C8_DeleteRemovesLogicalKey ==
    (Did("Delete") /\ Present(pre, last.k)) =>
        /\ \A k2 \in Keys : EqualFold(k2, last.k) => ~Get(Table, k2).ok
        /\ size = pre.size - 1

\* C9: when Delete's key matches the head of a chain of two or more entries,
\* the bucket afterwards holds the rest of the chain, the former second entry
\* as head, and every other entry of the chain is still found by Get with
\* its value.
C9_DeleteHeadKeepsRest ==
    LET h == Hash(pre.hashString, last.k)
        c == ChainPairs(pre, h)
    IN  (Did("Delete") /\ Len(c) >= 2 /\ EqualFold(c[1][1], last.k)) =>
            /\ ChainPairs(Table, h) = Tail(c)
            /\ \A i \in 2..Len(c) : Lookup(Table, c[i][1]) = <<c[i][2], TRUE>>

\* C10: Delete of a key whose logical key is absent leaves Len(), every
\* entry (key casing, value, place) and what Get returns for every key
\* unchanged, whether or not the key's bucket exists.
C10_DeleteAbsentChangesNothing ==
    (Did("Delete") /\ ~Present(pre, last.k)) =>
        /\ size = pre.size
        /\ Contents(Table) = Contents(pre)
        /\ \A k \in Keys : Lookup(Table, k) = Lookup(pre, k)

\* Delete was called with an absent key whose bucket holds other entries.
C10_Witness ==
    /\ Did("Delete")
    /\ ~Present(pre, last.k)
    /\ Hash(pre.hashString, last.k) \in DOMAIN pre.internalMap
    /\ size >= 2

\* The (key, value) pairs of the entries of t.
Pairs(t) == {<<t.nodes[n].Key, t.nodes[n].Value>> : n \in Entries(t)}

\* C11: SetHasher(fn) with a case-invariant fn, on a table holding any
\* entries, preserves Len() and leaves every (key, value) pair stored before
\* the call retrievable by Get with any case variant of its key.
C11_SetHasherPreservesContents ==
    Did("SetHasher") =>
        /\ MapLen(Table) = MapLen(pre)
        /\ \A p \in Pairs(pre) : \A k \in AsciiKeys :
              EqualFold(k, p[1]) => Lookup(Table, k) = <<p[2], TRUE>>

\* C12: GetAndDel(k) on a present logical key returns (the value Get(k)
\* would have returned, true); afterwards Get of every case variant of k
\* returns not-found, Len() is smaller by exactly 1 and the other entries
\* are as before.
C12_GetAndDelIsGetThenDelete ==
    (Did("GetAndDel") /\ Present(pre, last.k)) =>
        /\ <<last.val, last.ok>> = <<Get(pre, last.k).val, TRUE>>
        /\ \A k2 \in AsciiKeys : EqualFold(k2, last.k) => ~Get(Table, k2).ok
        /\ MapLen(Table) = MapLen(pre) - 1
        /\ Pairs(Table) = {p \in Pairs(pre) : ~EqualFold(p[1], last.k)}

\* C13: GetAndDel(k) on an absent logical key returns (zero value, false)
\* and leaves Len(), every entry and the hasher as they were.
C13_GetAndDelAbsentChangesNothing ==
    (Did("GetAndDel") /\ ~Present(pre, last.k)) =>
        /\ <<last.val, last.ok>> = <<0, FALSE>>
        /\ Table = pre

\* GetAndDel was called with an absent key whose bucket holds other entries.
C13_Witness ==
    /\ Did("GetAndDel")
    /\ ~Present(pre, last.k)
    /\ Hash(pre.hashString, last.k) \in DOMAIN pre.internalMap
    /\ ~last.ok
    /\ MapLen(Table) >= 1

\* C14: GetOrSet(k, v) on an absent logical key returns v; afterwards Get of
\* every case variant of k returns (v, true) and Len() is greater by
\* exactly 1.
C14_GetOrSetAbsentInserts ==
    (Did("GetOrSet") /\ ~Present(pre, last.k)) =>
        /\ last.val = last.v
        /\ \A k2 \in Keys : EqualFold(k2, last.k) => Lookup(Table, k2) = <<last.v, TRUE>>
        /\ MapLen(Table) = MapLen(pre) + 1

\* C15: GetOrSet(k, v) on a present logical key returns the stored value and
\* leaves the table (the stored value, the stored key casing, Len()) as it
\* was.
C15_GetOrSetPresentChangesNothing ==
    (Did("GetOrSet") /\ Present(pre, last.k)) =>
        /\ \E n \in Entries(pre) :
              EqualFold(pre.nodes[n].Key, last.k) /\ last.val = pre.nodes[n].Value
        /\ Table = pre

\* C16: encoding a table reached by Add, Delete and SetHasher calls and
\* decoding the result into a table gives a table with the same Len() and
\* the same set of (stored key, value) pairs.
C16_RoundTripKeepsLenAndPairs ==
    Did("RoundTrip") =>
        /\ MapLen(Table) = MapLen(pre)
        /\ Pairs(Table) = Pairs(pre)

\* Of the members of the decoded map m whose keys equal k up to case, the
\* one the import added last (o is the order of the Adds).
LastAdded(m, o, k) ==
    LET i == CHOOSE x \in 1..Len(o) :
                 /\ EqualFold(o[x], k)
                 /\ \A y \in (x + 1)..Len(o) : ~EqualFold(o[y], k)
    IN  <<o[i], m[o[i]]>>

\* C17: a successful import of a mapping M leaves no prior entry; the
\* entries are, for each group of case-equal keys of M, the pair of M that
\* was inserted last, each found by Get, and Len() is the number of distinct
\* logical keys of M.
C17_ImportReplacesContents ==
    (Did("UnmarshalJSON") /\ last.ok) =>
        LET m == jsonUnmarshal(last.data.members)
            kept == {LastAdded(m, last.order, k) : k \in DOMAIN m}
        IN  /\ Pairs(Table) = kept
            /\ MapLen(Table) = Cardinality(kept)
            /\ Cardinality(Entries(Table)) = Cardinality(kept)
            /\ \A p \in kept : Lookup(Table, p[1]) = <<p[2], TRUE>>

\* C18: an import of a payload that cannot be decoded reports an error, and
\* the table's prior contents have been cleared when it does.
C18_FailedImportClears ==
    (Did("UnmarshalJSON") /\ ~last.data.valid) =>
        /\ ~last.ok
        /\ Entries(Table) = {}
        /\ MapLen(Table) = 0

\* C19: Clear() from any state leaves Len() = 0, makes Get of every key
\* return not-found and traversal visit nothing, and leaves the installed
\* hash function as it was: an Add after it puts its entry in the bucket
\* that the hasher installed before the Clear gives the key.
C19_ClearEmptiesAndKeepsHasher ==
    Did("Clear") =>
        /\ MapLen(Table) = 0
        /\ \A k \in Keys : Get(Table, k) = Ret(Table, 0, FALSE, FALSE)
        /\ \A o \in Orders(DOMAIN internalMap) :
              /\ KeysSeq(Table, o, 0) = <<>>
              /\ Iterator(Table, o, 0) = <<>>
              /\ ForEach(Table, o, 0) = <<>>
        /\ hashString = pre.hashString
        /\ \A k \in Keys :
              LET a == Add(Table, k, 1)
              IN  ~a.panic /\ DOMAIN a.t.internalMap = {Hash(pre.hashString, k)}

\* The call just made was a traversal.
Traversed == Did("Keys") \/ Did("Iterator") \/ Did("ForEach")

\* What the traversal op gives its consumer for the entry n of t.
Item(t, op, n) ==
    IF op = "Keys" THEN t.nodes[n].Key
    ELSE <<t.nodes[n].Key, t.nodes[n].Value>>

\* C20: a traversal by Keys, Iterator or ForEach whose consumer never stops
\* it visits every stored entry exactly once and nothing else, so it visits
\* exactly Len() elements.
C20_FullTraversalVisitsLenEntries ==
    (Traversed /\ last.stop = 0) =>
        /\ \A n \in Entries(Table) :
              Cardinality({i \in 1..Len(last.seen) :
                             last.seen[i] = Item(Table, last.op, n)}) = 1
        /\ \A i \in 1..Len(last.seen) :
              \E n \in Entries(Table) : last.seen[i] = Item(Table, last.op, n)
        /\ Len(last.seen) = MapLen(Table)

\* C21: when the consumer of Keys, Iterator or ForEach signals stop at the
\* n-th element it is given, exactly n elements are visited (one when it
\* stops at the first), also when the stop falls inside a chain of several
\* entries, and the table is left as it was.
C21_StopEndsTraversal ==
    (Traversed /\ last.stop >= 1 /\ last.stop <= Cardinality(Entries(Table))) =>
        /\ Len(last.seen) = last.stop
        /\ Table = pre

\* The consumer stopped at the head of a chain of two entries, in a table
\* that has another bucket as well.
C21_Witness ==
    /\ Traversed
    /\ last.stop = 1
    /\ Len(last.seen) = 1
    /\ Cardinality(DOMAIN internalMap) >= 2
    /\ \E h \in DOMAIN internalMap :
          /\ Len(Chain(Table, h)) >= 2
          /\ last.seen[1] = Item(Table, last.op, internalMap[h])

\* C22: Add, Delete, Clear, SetHasher and the traversals never crash, in any
\* reachable state of the table, a table obtained as a zero value and a
\* zero-value table on which an import has failed included.
C22_NoCrash ==
    panicked =>
        last.op \notin {"Add", "Delete", "Clear", "SetHasher", "Keys", "Iterator", "ForEach"}

\* C23: the default hash function gives the key of a call and every key
\* that strings.EqualFold, the comparison of the chain walks, treats as
\* equal to it the same hash.
C23_DefaultHashAgreesWithFold ==
    (last.k # NoKey /\ hashString = "default") =>
        \A k2 \in Keys :
            EqualFold(last.k, k2) => defaultHashString(last.k) = defaultHashString(k2)

\* C24: New with no capacity hint, a hint of 0 or a positive hint returns a
\* table with Len() = 0 on which Get of every key returns (zero value,
\* false) and on which the default hash function is installed.
C24_NewIsEmptyWithDefaultHasher ==
    last.op = "New" =>
        /\ MapLen(Table) = 0
        /\ \A k \in Keys : Get(Table, k) = Ret(Table, 0, FALSE, FALSE)
        /\ hashString = "default"
        /\ \A k \in Keys : Hash(hashString, k) = defaultHashString(k)

\* New was called with a positive capacity.
C24_Witness ==
    /\ last.op = "New"
    /\ Len(last.hint) = 1
    /\ last.hint[1] > 0
    /\ ~panicked
    /\ MapLen(Table) = 0

\* C25: when Delete's key matches an entry of a chain that is not its head,
\* exactly the first matching entry is unlinked: the head and the other
\* entries stay in the bucket in their order and are still found by Get.
C25_DeleteInteriorUnlinksOne ==
    LET h == Hash(pre.hashString, last.k)
        c == ChainPairs(pre, h)
        hits == {i \in 2..Len(c) : EqualFold(c[i][1], last.k)}
    IN  (Did("Delete") /\ Len(c) >= 2 /\ ~EqualFold(c[1][1], last.k) /\ hits # {}) =>
            LET i == CHOOSE x \in hits : \A y \in hits : x <= y
            IN  /\ ChainPairs(Table, h) = SubSeq(c, 1, i - 1) \o SubSeq(c, i + 1, Len(c))
                /\ \A j \in (1..Len(c)) \ {i} :
                      Lookup(Table, c[j][1]) = <<c[j][2], TRUE>>

\* C26: no bucket of the store has an empty chain, and Delete removes a
\* bucket from the store exactly when the removal of the entry leaves the
\* bucket's chain empty: when the chain was the matching entry alone.
C26_BucketRemovedOnlyWhenEmpty ==
    /\ \A h \in DOMAIN internalMap : Chain(Table, h) # <<>>
    /\ Did("Delete") =>
          \A h \in DOMAIN pre.internalMap :
              (h \notin DOMAIN internalMap) <=>
                  /\ h = Hash(pre.hashString, last.k)
                  /\ Len(ChainPairs(pre, h)) = 1
                  /\ EqualFold(ChainPairs(pre, h)[1][1], last.k)

\* C27: Add(k, v) increases Len() by exactly 1 when no entry with a key
\* equal to k up to case is present before the call, whether or not k's
\* bucket held entries, and leaves Len() unchanged when one is present.
C27_AddCountsLogicalKeys ==
    Did("Add") =>
        MapLen(Table) = MapLen(pre) + (IF Present(pre, last.k) THEN 0 ELSE 1)

\* C28: an import installs the default hash function only when the table
\* has none and otherwise leaves the installed one as it is; the imported
\* entries are in the buckets that the hasher installed after the import
\* gives their keys, so each is found by Get.
C28_ImportKeepsInstalledHasher ==
    (Did("UnmarshalJSON") /\ last.ok) =>
        /\ hashString = IF pre.hashString = "nil" THEN "default" ELSE pre.hashString
        /\ \A h \in DOMAIN internalMap :
              \A n \in SeqRange(Chain(Table, h)) : Hash(hashString, nodes[n].Key) = h
        /\ \A p \in Pairs(Table) : Get(Table, p[1]) = Ret(Table, p[2], TRUE, FALSE)

\* Two entries were imported into a table with a custom hasher, which put
\* them in two buckets.
C28_Witness ==
    /\ Did("UnmarshalJSON")
    /\ last.ok
    /\ pre.hashString = "sumLower"
    /\ hashString = "sumLower"
    /\ Cardinality(DOMAIN internalMap) = 2
    /\ Len(last.data.members) = 2

\* C29: in every reachable state an export has exactly one field for each
\* stored entry, keyed by the entry's stored key and holding its value, so
\* the number of exported fields is Len().
C29_ExportHasOneFieldPerEntry ==
    \A d \in MarshalJSON(Table) :
        /\ d.valid
        /\ {<<d.members[i].key, d.members[i].val>> : i \in 1..Len(d.members)} = Pairs(Table)
        /\ Len(d.members) = Cardinality(Entries(Table))
        /\ Len(d.members) = MapLen(Table)

\* The keys k1 and k2 differ, also up to case, and the hasher h gives them
\* the same hash.
PureCollision(h, k1, k2) ==
    ~EqualFold(k1, k2) /\ Hash(h, k1) = Hash(h, k2)

\* C30: an import of a mapping whose keys collide under the table's hash
\* function without being equal up to case keeps every one of them: each
\* is found by Get with its own value, and Len() is the number of keys
\* imported.
C30_ImportKeepsCollidingKeys ==
    LET m == jsonUnmarshal(last.data.members)
    IN  (/\ Did("UnmarshalJSON")
         /\ last.ok
         /\ \A k1, k2 \in DOMAIN m : k1 # k2 => ~EqualFold(k1, k2)
         /\ \E k1, k2 \in DOMAIN m : PureCollision(hashString, k1, k2)) =>
            /\ \A k \in DOMAIN m : Get(Table, k) = Ret(Table, m[k], TRUE, FALSE)
            /\ MapLen(Table) = Cardinality(DOMAIN m)

\* "a" and "b" were imported into a table whose hasher is len(s), and are
\* the two entries of one chain.
C30_Witness ==
    /\ Did("UnmarshalJSON")
    /\ last.ok
    /\ pre.hashString = "len"
    /\ DOMAIN jsonUnmarshal(last.data.members) = {<<97>>, <<98>>}
    /\ Cardinality(DOMAIN internalMap) = 1
    /\ Cardinality(Entries(Table)) = 2

\* C31: every (key, value) pair that Keys, Iterator or ForEach gives its
\* consumer is retrievable: Get of the key returns (the value, true); for
\* Keys, which gives keys only, the value is that of an entry stored under
\* the key.
C31_VisitedPairsAreRetrievable ==
    Traversed =>
        \A i \in 1..Len(last.seen) :
            IF last.op = "Keys"
            THEN \E n \in Entries(Table) :
                    /\ nodes[n].Key = last.seen[i]
                    /\ Get(Table, last.seen[i]) = Ret(Table, nodes[n].Value, TRUE, FALSE)
            ELSE Get(Table, last.seen[i][1]) = Ret(Table, last.seen[i][2], TRUE, FALSE)

\* C32: for a logical key k absent from the table, Add(k, v) followed by
\* Delete(k) restores what can be observed: Len() and what Get returns for
\* every key are as before the Add, also when k's bucket holds other
\* entries.
C32_AddThenDeleteRestores ==
    (Did("AddThenDelete") /\ ~Present(pre, last.k)) =>
        /\ MapLen(Table) = MapLen(pre)
        /\ \A k \in Keys : Get(Table, k) = Get(pre, k)

\* C33: in every reachable state the chains are finite, acyclic and
\* pairwise disjoint: the walk from a bucket's head meets no entry twice
\* and ends at nil, and no entry is reachable from two buckets; so every
\* chain walk of Get, Add, Delete and the traversals terminates.
C33_ChainsAcyclicAndDisjoint ==
    /\ \A h \in DOMAIN internalMap :
          LET c == Chain(Table, h)
          IN  /\ SeqRange(c) \subseteq DOMAIN nodes
              /\ \A i, j \in 1..Len(c) : c[i] = c[j] => i = j
              /\ c # <<>> => nodes[c[Len(c)]].Next = 0
    /\ \A h1, h2 \in DOMAIN internalMap :
          h1 # h2 => SeqRange(Chain(Table, h1)) \cap SeqRange(Chain(Table, h2)) = {}

\* SetHasher was called on a table with a chain of two or more entries and
\* left two or more buckets, one of them with a chain of two or more.
C33_Witness ==
    /\ Did("SetHasher")
    /\ \E h \in DOMAIN pre.internalMap : Len(Chain(pre, h)) >= 2
    /\ Cardinality(DOMAIN internalMap) >= 2
    /\ \E h \in DOMAIN internalMap : Len(Chain(Table, h)) >= 2

====
